---- MODULE Spec2Model ----
(***************************************************************************)
(* Model of weighted-probability-rs (src/src/lib.rs): construction of a    *)
(* Vose alias table from weighted tuples (Alias::from_weighted_tuples) and *)
(* the two-random-number lookup (Alias::select).                           *)
(*                                                                         *)
(* Fractions (the `fraction` crate's Fraction) are pairs <<num, den>> in   *)
(* lowest terms with den > 0; <<0, 0>> is NaN and <<1, 0>> is Infinity.    *)
(* Weights and counts are kept far below 2^64, so u64 overflow of          *)
(* `wt.weight * count` and of the sum is outside the model.                *)
(***************************************************************************)
EXTENDS Integers, Sequences, FiniteSets, TLC

\* ---------------------------------------------------------------- bounds
\* Longest input slice.
MaxItems == 3
\* Largest weight of a WeightedTuple.
MaxWeight == 3
\* The usize of rng.gen() ranges over 0..MaxRoll (reduced modulo the slot count).
MaxRoll == 3
\* The f32 of rng.gen() ranges over k / CoinDen, k in 0..CoinDen-1, i.e. [0, 1).
CoinDen == 4

\* ---------------------------------------------------------------- fractions
Abs(x) == IF x < 0 THEN -x ELSE x

\* Euclid's algorithm, as a function so that its arguments are values.
Euclid[a \in Nat, b \in Nat] == IF b = 0 THEN a ELSE Euclid[b, a % b]

GCD(a, b) == Euclid[a, b]

NaN == <<0, 0>>
Infinity == <<1, 0>>

IsRational(f) == f[2] # 0

\* Fraction::new(num, den): NaN for 0/0, Infinity for x/0, else the ratio in
\* lowest terms.
FractionNew(num, den) ==
    IF den = 0
    THEN (IF num = 0 THEN NaN ELSE Infinity)
    ELSE LET g == GCD(Abs(num), den)
         IN  <<num \div g, den \div g>>

one == FractionNew(1, 1)

\* Fraction + Fraction (NaN is absorbing; Infinity + rational = Infinity).
FractionAdd(a, b) ==
    IF a = NaN \/ b = NaN THEN NaN
    ELSE IF a = Infinity \/ b = Infinity THEN Infinity
    ELSE FractionNew(a[1] * b[2] + b[1] * a[2], a[2] * b[2])

\* Fraction - Fraction (Infinity - Infinity = NaN).
FractionSub(a, b) ==
    IF a = NaN \/ b = NaN THEN NaN
    ELSE IF a = Infinity /\ b = Infinity THEN NaN
    ELSE IF a = Infinity THEN Infinity
    ELSE IF b = Infinity THEN NaN
    ELSE FractionNew(a[1] * b[2] - b[1] * a[2], a[2] * b[2])

\* a < b of PartialOrd: false as soon as one side is NaN.
FractionLt(a, b) ==
    IF a = NaN \/ b = NaN THEN FALSE
    ELSE IF a = Infinity THEN FALSE
    ELSE IF b = Infinity THEN TRUE
    ELSE a[1] * b[2] < b[1] * a[2]

\* a <= b of PartialOrd: false as soon as one side is NaN.
FractionLe(a, b) ==
    IF a = NaN \/ b = NaN THEN FALSE
    ELSE IF b = Infinity THEN TRUE
    ELSE IF a = Infinity THEN FALSE
    ELSE a[1] * b[2] <= b[1] * a[2]

\* Fraction::from(f32) for the float k / CoinDen: the ratio in lowest terms.
FractionFromF32(k) == FractionNew(k, CoinDen)

\* ---------------------------------------------------------------- data
\* WeightedTuple::new(weight, value)
WeightedTuple(w, v) == [weight |-> w, value |-> v]

\* NormalizedWeightTuple { fractional_weight, value }
NormalizedWeightTuple(f, v) == [fractional_weight |-> f, value |-> v]

\* Values of type T are opaque and Copy; the model tags each input item with
\* a distinct value so that every item can be told apart in the table.
Values == 1..MaxItems

\* The input slices: every length up to MaxItems, every weight up to MaxWeight.
Inputs ==
    UNION { { [i \in 1..n |-> WeightedTuple(ws[i], i)] : ws \in [1..n -> 0..MaxWeight] }
            : n \in 0..MaxItems }

\* Vec::pop / last element
Last(s) == s[Len(s)]
Pop(s) == SubSeq(s, 1, Len(s) - 1)

\* items.iter().map(|wt| wt.weight).fold(0, |total, next| total + next)
RECURSIVE SumWeights(_)
SumWeights(its) ==
    IF its = <<>> THEN 0 ELSE SumWeights(Pop(its)) + Last(its).weight

\* ---------------------------------------------------------------- builder
\* The classification with <= where the code has <.
IsSmallOrEqual(f) == FractionLe(f, one)

\* `item.fractional_weight < one` / `reduced_fraction < one`
IsSmall(f) == FractionLt(f, one)

\* normalized_weight_tuples: weight * count / sum for every input item.
Normalize(its) ==
    LET count == Len(its)
        sum == SumWeights(its)
    IN  [i \in 1..count |->
            NormalizedWeightTuple(FractionNew(its[i].weight * count, sum), its[i].value)]

\* The partition loop over the first k normalized items: push each onto
\* small_items or large_items.
RECURSIVE Classify(_, _)
Classify(norm, k) ==
    IF k = 0
    THEN [small_items |-> <<>>, large_items |-> <<>>]
    ELSE LET prev == Classify(norm, k - 1)
             item == norm[k]
         IN  IF IsSmall(item.fractional_weight)
             THEN [prev EXCEPT !.small_items = Append(@, item)]
             ELSE [prev EXCEPT !.large_items = Append(@, item)]

\* The locals of from_weighted_tuples when the pairing loop is first reached.
Partition(its) ==
    LET parts == Classify(Normalize(its), Len(its))
    IN  [small_items |-> parts.small_items,
         large_items |-> parts.large_items,
         finalized_probabilities |-> <<>>,
         finalized_aliases |-> <<>>]

\* `current_large_item.fractional_weight + current_large_item.fractional_weight - one`
ReducedFraction(current_small_item, current_large_item) ==
    FractionSub(FractionAdd(current_large_item.fractional_weight,
                            current_large_item.fractional_weight), one)

\* `!small_items.is_empty() && !large_items.is_empty()`
PairGuard(st) == st.small_items # <<>> /\ st.large_items # <<>>

\* PairStep with `finalized_aliases.push(..)` left out.
PairStepNoAlias(st) ==
    LET current_small_item == Last(st.small_items)
        current_large_item == Last(st.large_items)
        reduced_large_item ==
            NormalizedWeightTuple(ReducedFraction(current_small_item, current_large_item),
                                  current_large_item.value)
    IN  [small_items |-> Pop(st.small_items),
         large_items |-> Append(Pop(st.large_items), reduced_large_item),
         finalized_probabilities |-> Append(st.finalized_probabilities, current_small_item),
         finalized_aliases |-> st.finalized_aliases]

\* PairStep with the reduced large item pushed back onto neither worklist.
PairStepDropsLarge(st) ==
    LET current_small_item == Last(st.small_items)
        current_large_item == Last(st.large_items)
    IN  [small_items |-> Pop(st.small_items),
         large_items |-> Pop(st.large_items),
         finalized_probabilities |-> Append(st.finalized_probabilities, current_small_item),
         finalized_aliases |-> Append(st.finalized_aliases, current_large_item.value)]

\* PairStep reading the small item with last() where the code pops it.
PairStepPeeksSmall(st) ==
    LET current_small_item == Last(st.small_items)
        current_large_item == Last(st.large_items)
        reduced_large_item ==
            NormalizedWeightTuple(ReducedFraction(current_small_item, current_large_item),
                                  current_large_item.value)
    IN  [small_items |-> st.small_items,
         large_items |-> Append(Pop(st.large_items), reduced_large_item),
         finalized_probabilities |-> Append(st.finalized_probabilities, current_small_item),
         finalized_aliases |-> Append(st.finalized_aliases, current_large_item.value)]

\* One iteration of the pairing loop.
PairStep(st) ==
    LET current_small_item == Last(st.small_items)
        current_large_item == Last(st.large_items)
        reduced_fraction == ReducedFraction(current_small_item, current_large_item)
        reduced_large_item ==
            NormalizedWeightTuple(reduced_fraction, current_large_item.value)
    IN  [small_items |->
            IF IsSmall(reduced_fraction)
            THEN Append(Pop(st.small_items), reduced_large_item)
            ELSE Pop(st.small_items),
         large_items |->
            IF IsSmall(reduced_fraction)
            THEN Pop(st.large_items)
            ELSE Append(Pop(st.large_items), reduced_large_item),
         finalized_probabilities |-> Append(st.finalized_probabilities, current_small_item),
         finalized_aliases |-> Append(st.finalized_aliases, current_large_item.value)]

\* `!large_items.is_empty()`
DrainGuard(st) == st.large_items # <<>>

\* DrainStep emitting the large item with its own weight, not with one.
DrainStepKeepsWeight(st) ==
    LET current_large_item == Last(st.large_items)
    IN  [st EXCEPT
            !.large_items = Pop(@),
            !.finalized_probabilities = Append(@, current_large_item)]

\* One iteration of the drain loop over large_items.
DrainStep(st) ==
    LET current_large_item == Last(st.large_items)
    IN  [st EXCEPT
            !.large_items = Pop(@),
            !.finalized_probabilities =
                Append(@, NormalizedWeightTuple(one, current_large_item.value))]

\* The emptiness test off by one.
NoTuplesOffByOne(its) == Len(its) <= 1

\* `count == 0`
NoTuples(its) == Len(its) = 0

\* AliasCreationError and its Display
NoTuplesMessage == "no weighted tuples were provided"
AliasCreationError(msg) == [message |-> msg]
Display(e) == e.message

\* Result<Alias<T>, AliasCreationError>
Err(e) == [kind |-> "Err", error |-> e, probabilities |-> <<>>, aliases |-> <<>>]
Ok(st) ==
    [kind |-> "Ok", error |-> AliasCreationError(""),
     probabilities |-> st.finalized_probabilities,
     aliases |-> st.finalized_aliases]
NoResult == [kind |-> "None", error |-> AliasCreationError(""),
             probabilities |-> <<>>, aliases |-> <<>>]

\* The loops run to completion. Every iteration shortens the worklists, so the
\* recursion is bounded by their total length.
RECURSIVE RunPair(_)
RunPair(st) == IF PairGuard(st) THEN RunPair(PairStep(st)) ELSE st

RECURSIVE RunDrain(_)
RunDrain(st) == IF DrainGuard(st) THEN RunDrain(DrainStep(st)) ELSE st

\* Alias::from_weighted_tuples as a function of its input.
from_weighted_tuples(its) ==
    IF NoTuples(its)
    THEN Err(AliasCreationError(NoTuplesMessage))
    ELSE Ok(RunDrain(RunPair(Partition(its))))

\* ---------------------------------------------------------------- sampler
NoSelection == [kind |-> "None", value |-> 0]
Returned(v) == [kind |-> "Value", value |-> v]
Panic == [kind |-> "Panic", value |-> 0]

\* Alias::select with random_values = (roll, k / CoinDen). A remainder by zero
\* and an index past the end of a Vec panic.
select(table, roll, k) ==
    IF Len(table.probabilities) = 0
    THEN Panic
    ELSE LET probability_index == (roll % Len(table.probabilities)) + 1
             current_probability == table.probabilities[probability_index]
             random_probability == FractionFromF32(k)
         IN  IF FractionLe(random_probability, current_probability.fractional_weight)
             THEN Returned(current_probability.value)
             ELSE IF probability_index <= Len(table.aliases)
                  THEN Returned(table.aliases[probability_index])
                  ELSE Panic

\* ---------------------------------------------------------------- state
VARIABLES
    items,                    \* the slice passed to from_weighted_tuples
    pc,                       \* position in from_weighted_tuples
    small_items,
    large_items,
    finalized_probabilities,
    finalized_aliases,
    result,                   \* what from_weighted_tuples returned
    random_values,            \* the (usize, f32) of the last rng.gen()
    selected                  \* what the last select returned

vars == <<items, pc, small_items, large_items, finalized_probabilities,
          finalized_aliases, result, random_values, selected>>

\* The locals of from_weighted_tuples as one record.
Locals ==
    [small_items |-> small_items, large_items |-> large_items,
     finalized_probabilities |-> finalized_probabilities,
     finalized_aliases |-> finalized_aliases]

SetLocals(st) ==
    /\ small_items' = st.small_items
    /\ large_items' = st.large_items
    /\ finalized_probabilities' = st.finalized_probabilities
    /\ finalized_aliases' = st.finalized_aliases

Init ==
    /\ items = <<>>
    /\ pc = "idle"
    /\ small_items = <<>>
    /\ large_items = <<>>
    /\ finalized_probabilities = <<>>
    /\ finalized_aliases = <<>>
    /\ result = NoResult
    /\ random_values = <<0, 0>>
    /\ selected = NoSelection

\* A caller passes a slice to from_weighted_tuples.
Call ==
    /\ pc = "idle"
    /\ items' \in Inputs
    /\ pc' = "start"
    /\ UNCHANGED <<small_items, large_items, finalized_probabilities,
                   finalized_aliases, result, random_values, selected>>

\* count == 0: return Err.
ReturnErr ==
    /\ pc = "start"
    /\ NoTuples(items)
    /\ result' = Err(AliasCreationError(NoTuplesMessage))
    /\ pc' = "err"
    /\ UNCHANGED <<items, small_items, large_items, finalized_probabilities,
                   finalized_aliases, random_values, selected>>

\* Normalize the weights and partition them into the two worklists.
PartitionItems ==
    /\ pc = "start"
    /\ ~NoTuples(items)
    /\ SetLocals(Partition(items))
    /\ pc' = "pair"
    /\ UNCHANGED <<items, result, random_values, selected>>

PairIteration ==
    /\ pc = "pair"
    /\ PairGuard(Locals)
    /\ SetLocals(PairStep(Locals))
    /\ UNCHANGED <<items, pc, result, random_values, selected>>

PairExit ==
    /\ pc = "pair"
    /\ ~PairGuard(Locals)
    /\ pc' = "drain"
    /\ UNCHANGED <<items, small_items, large_items, finalized_probabilities,
                   finalized_aliases, result, random_values, selected>>

DrainIteration ==
    /\ pc = "drain"
    /\ DrainGuard(Locals)
    /\ SetLocals(DrainStep(Locals))
    /\ UNCHANGED <<items, pc, result, random_values, selected>>

ReturnOk ==
    /\ pc = "drain"
    /\ ~DrainGuard(Locals)
    /\ result' = Ok(Locals)
    /\ pc' = "done"
    /\ UNCHANGED <<items, small_items, large_items, finalized_probabilities,
                   finalized_aliases, random_values, selected>>

\* One call of select on the built table.
Select ==
    /\ pc = "done"
    /\ \E roll \in 0..MaxRoll, k \in 0..(CoinDen - 1) :
          /\ random_values' = <<roll, k>>
          /\ selected' = select(result, roll, k)
    /\ UNCHANGED <<items, pc, small_items, large_items, finalized_probabilities,
                   finalized_aliases, result>>

Build ==
    \/ ReturnErr
    \/ PartitionItems
    \/ PairIteration
    \/ PairExit
    \/ DrainIteration
    \/ ReturnOk

Next == Call \/ Build \/ Select

Spec == Init /\ [][Next]_vars

\* One call of from_weighted_tuples on its own. It is straight-line synchronous
\* code: a step that can be taken is taken.
FairSpec == Init /\ [][Call \/ Build]_vars /\ WF_vars(Build)

\* ---------------------------------------------------------------- claims
PositiveTotal == Len(items) > 0 /\ SumWeights(items) > 0

\* The mass slot i gives value v: probabilities[i] if v is the slot's own
\* value, 1 - probabilities[i] if v is the slot's alias.
SlotMass(table, i, v) ==
    LET p == table.probabilities[i].fractional_weight
        own == IF table.probabilities[i].value = v THEN p ELSE FractionNew(0, 1)
        ali == IF i <= Len(table.aliases) /\ table.aliases[i] = v
               THEN FractionSub(one, p)
               ELSE FractionNew(0, 1)
    IN  FractionAdd(own, ali)

RECURSIVE TableMass(_, _, _)
TableMass(table, k, v) ==
    IF k = 0 THEN FractionNew(0, 1)
    ELSE FractionAdd(TableMass(table, k - 1, v), SlotMass(table, k, v))

\* The probability that select returns v: the slot index is uniform over the
\* n slots.
SelectionProbability(table, v) ==
    LET n == Len(table.probabilities)
        mass == TableMass(table, n, v)
    IN  IF IsRational(mass) THEN FractionNew(mass[1], mass[2] * n) ELSE mass

\* Every ordering of the input slice.
Orderings(its) ==
    LET n == Len(its)
        bijections == { f \in [1..n -> 1..n] : \A i, j \in 1..n : f[i] = f[j] => i = j }
    IN  { [i \in 1..n |-> its[f[i]]] : f \in bijections }

\* C1: for every non-empty input with positive total weight S, the built
\* table gives each item the selection probability weight / S.
DistributionMatchesWeights ==
    (pc = "done" /\ PositiveTotal) =>
        \A i \in 1..Len(items) :
            SelectionProbability(result, items[i].value)
                = FractionNew(items[i].weight, SumWeights(items))

\* C2: for every non-empty input with positive total weight the build returns
\* Ok, the slot count equals the item count and every item is exactly one slot.
SlotCountEqualsItemCount ==
    PositiveTotal =>
        /\ pc # "err"
        /\ result.kind # "Err"
        /\ pc = "done" =>
            /\ result.kind = "Ok"
            /\ Len(result.probabilities) = Len(items)
            /\ \A i \in 1..Len(items) :
                  Cardinality({ j \in 1..Len(result.probabilities) :
                                   result.probabilities[j].value = items[i].value }) = 1

\* A table of three slots, two of them paired with an alias, one item of
\* weight zero.
SlotCountWitness ==
    /\ pc = "done"
    /\ PositiveTotal
    /\ Len(items) = 3
    /\ Len(result.aliases) = 2
    /\ \E i \in 1..3 : items[i].weight = 0

\* C3: an empty input returns the error whose displayed message is
\* "no weighted tuples were provided" and no table; no non-empty input does.
EmptyInputIsTheOnlyError ==
    /\ (Len(items) = 0 /\ pc \notin {"idle", "start"}) =>
          /\ pc = "err"
          /\ result.kind = "Err"
          /\ Display(result.error) = "no weighted tuples were provided"
          /\ result.probabilities = <<>>
          /\ result.aliases = <<>>
    /\ Len(items) > 0 => (pc # "err" /\ result.kind # "Err")

EmptyInputWitness == pc = "err" /\ result.kind = "Err" /\ Len(items) = 0

\* C4: select never fails on a built table: the alias array is only read at
\* an index below its length, and every slot past its end has probability 1.
SelectNeverFails ==
    /\ selected.kind # "Panic"
    /\ pc = "done" =>
          /\ Len(result.probabilities) > 0
          /\ \A i \in 1..Len(result.probabilities) :
                /\ \A k \in 0..(CoinDen - 1) :
                      ~FractionLe(FractionFromF32(k),
                                  result.probabilities[i].fractional_weight)
                          => i <= Len(result.aliases)
                /\ i > Len(result.aliases)
                      => result.probabilities[i].fractional_weight = one

\* select has read the alias array, on a table that also has slots with no
\* alias.
SelectAliasReadWitness ==
    /\ pc = "done"
    /\ selected.kind = "Value"
    /\ LET i == (random_values[1] % Len(result.probabilities)) + 1
       IN  /\ ~FractionLe(FractionFromF32(random_values[2]),
                          result.probabilities[i].fractional_weight)
           /\ selected.value = result.aliases[i]
           /\ Len(result.aliases) < Len(result.probabilities)

\* C5: a table built from exactly one item returns that item's value on every
\* select, whatever the random source produces.
SingleItemAlwaysSelected ==
    Len(items) = 1 =>
        /\ pc # "err"
        /\ pc = "done" =>
              \A roll \in 0..MaxRoll, k \in 0..(CoinDen - 1) :
                  select(result, roll, k) = Returned(items[1].value)
        /\ selected # NoSelection => selected = Returned(items[1].value)

SingleItemWitness ==
    /\ Len(items) = 1
    /\ selected = Returned(items[1].value)
    /\ random_values = <<MaxRoll, CoinDen - 1>>

\* C6: an item of weight zero is never returned by select, on any table built
\* from an input with positive total weight.
ZeroWeightNeverSelected ==
    (PositiveTotal /\ selected.kind = "Value") =>
        \A i \in 1..Len(items) :
            items[i].value = selected.value => items[i].weight > 0

\* C7 as stated: every probabilities[i] is strictly greater than 0 and at
\* most 1.
ProbabilitiesInHalfOpenUnit ==
    (pc = "done" /\ PositiveTotal) =>
        \A i \in 1..Len(result.probabilities) :
            LET p == result.probabilities[i].fractional_weight
            IN  IsRational(p) /\ FractionLt(FractionNew(0, 1), p) /\ FractionLe(p, one)

\* C7 as amended: every probabilities[i] is an exact rational at least 0
\* and at most 1.
ProbabilitiesInClosedUnit ==
    (pc = "done" /\ PositiveTotal) =>
        \A i \in 1..Len(result.probabilities) :
            LET p == result.probabilities[i].fractional_weight
            IN  /\ IsRational(p)
                /\ FractionLe(FractionNew(0, 1), p)
                /\ FractionLe(p, one)

\* A table with a slot of probability 0, one strictly between 0 and 1 and one
\* of probability 1.
ProbabilitiesWitness ==
    /\ pc = "done"
    /\ PositiveTotal
    /\ \E i, j, k \in 1..Len(result.probabilities) :
          /\ result.probabilities[i].fractional_weight = FractionNew(0, 1)
          /\ FractionLt(FractionNew(0, 1), result.probabilities[j].fractional_weight)
          /\ FractionLt(result.probabilities[j].fractional_weight, one)
          /\ result.probabilities[k].fractional_weight = one

\* C8: in each iteration of the pairing loop the large item g paired with the
\* small item l is pushed back with the weight (p_g + p_l) - 1.
RebalanceSubtractsShortfall ==
    [][PairIteration =>
          LET l == Last(small_items)
              g == Last(large_items)
              expected == FractionSub(FractionAdd(g.fractional_weight,
                                                  l.fractional_weight), one)
              pushed == NormalizedWeightTuple(expected, g.value)
          IN  \/ (small_items' # <<>> /\ Last(small_items') = pushed
                    /\ Len(small_items') = Len(small_items))
              \/ (large_items' # <<>> /\ Last(large_items') = pushed
                    /\ Len(large_items') = Len(large_items))]_vars

\* C9: every ordering of the same items gives every value the same selection
\* probability.
OrderIndependentDistribution ==
    (pc = "done" /\ selected = NoSelection /\ PositiveTotal) =>
        \A reordered \in Orderings(items) :
            \A i \in 1..Len(items) :
                SelectionProbability(from_weighted_tuples(reordered), items[i].value)
                    = SelectionProbability(result, items[i].value)

\* C10: the build terminates on every non-empty input with positive total
\* weight: the pairing loop runs at most n - 1 iterations (one alias is pushed
\* per iteration), each iteration strictly decreases the number of items still
\* on the worklists, and the drain loop leaves large_items empty.
BuildTerminates ==
    /\ [](PositiveTotal => Len(finalized_aliases) <= Len(items) - 1)
    /\ [][PairIteration =>
             Len(small_items') + Len(large_items') < Len(small_items) + Len(large_items)]_vars
    /\ [](pc = "done" => large_items = <<>>)
    /\ ((pc = "start" /\ PositiveTotal) ~> pc = "done")

\* A build of three items that ran the pairing loop n - 1 = 2 times.
BuildTerminatesWitness ==
    /\ pc = "done"
    /\ PositiveTotal
    /\ Len(items) = 3
    /\ Len(finalized_aliases) = 2
    /\ Len(result.probabilities) = 3

====
